---- MODULE Spec2Model ----
(***************************************************************************)
(* Model of the SAE dashboard pipeline of this repository:                 *)
(*   - vit_sae_analysis/dashboard_fns.py: get_feature_data, the streaming  *)
(*     accumulation of a per-latent top-k table with get_new_top_k, the    *)
(*     running statistics and the persisted tensors;                       *)
(*   - saev/app.py: make_sae_activation / get_sae_activations, the example *)
(*     assembly of the serving path with its encode worker pool.           *)
(* Three specifications share the variables: Spec (get_feature_data),      *)
(* SpecMerge (get_new_top_k on arbitrary arrays) and SpecServe (one        *)
(* serving request).                                                       *)
(***************************************************************************)
EXTENDS Integers, Sequences, FiniteSets, Bags, TLC

\* ---------------------------------------------------------------- bounds
\* d_sae: number of SAE latents (rows of every table).
NumLatents == 2
\* Largest dataset (number of images the dataset can hold).
MaxDataset == 4
\* Largest value of the argument number_of_images.
MaxNumberOfImages == 4
\* Largest value of the argument max_number_of_images_per_iteration.
MaxPerIteration == 2
\* Largest value of the argument number_of_max_activating_images.
MaxTopK == 2
\* SAE activations are post-ReLU, drawn from 0..MaxAct.
MaxAct == 2

Latents == 1..NumLatents
ActValues == 0..MaxAct

\* ---------------------------------------------------------------- helpers
Min(a, b) == IF a < b THEN a ELSE b

Range(s) == {s[i] : i \in DOMAIN s}

RECURSIVE SumSeq(_)
SumSeq(s) == IF s = << >> THEN 0 ELSE Head(s) + SumSeq(Tail(s))

\* Number of entries of s that are > 0: (x > 0).sum()
CountPositive(s) == Cardinality({i \in DOMAIN s : s[i] > 0})

\* A float as the tensors hold it: an exact ratio, or the IEEE specials that a
\* division by zero produces.
Float(n, d) == [kind |-> "num", num |-> n, den |-> d]
NaN == [kind |-> "nan", num |-> 0, den |-> 0]
Inf == [kind |-> "inf", num |-> 0, den |-> 0]

\* (Variant of Divide that guards the division: a zero divisor gives zero.)
DivideGuarded(x, y) ==
    IF y = 0 THEN Float(0, 1) ELSE Float(x, y)

\* Elementwise float division x / y of the tensors: never raises.
Divide(x, y) ==
    IF y = 0 THEN (IF x = 0 THEN NaN ELSE Inf) ELSE Float(x, y)

\* torch.zeros([d_sae, k])
Zeros2(k) == [l \in Latents |-> [r \in 1..k |-> 0]]
\* torch.zeros([d_sae])
Zeros1 == [l \in Latents |-> 0]

\* dataset[a : b]: a slice is clamped to the dataset, it never raises.
Slice(len, a, b) ==
    LET hi == Min(b, len)
    IN  IF a >= hi THEN << >> ELSE [j \in 1..(hi - a) |-> a + j - 1]

\* dataset[i]["label"]
LabelOf(i) == i % 2

\* (Variant of TopKRow that returns the k largest entries without ordering them.)
TopKRowUnsorted(vals, k) ==
    {s \in [1..k -> 1..Len(vals)] :
        /\ \A i, j \in 1..k : i # j => s[i] # s[j]
        /\ \A j \in 1..Len(vals) : \A q \in 1..k :
              (\A i \in 1..k : s[i] # j) => vals[j] <= vals[s[q]]}

\* torch.topk(vals, k) on one row: the positions of k largest entries, their
\* values in descending order. Which of several equal entries is taken, and in
\* which order, is left open by the library: every admissible selection.
TopKRow(vals, k) ==
    {s \in [1..k -> 1..Len(vals)] :
        /\ \A i, j \in 1..k : i # j => s[i] # s[j]
        /\ \A i \in 1..(k - 1) : vals[s[i]] >= vals[s[i + 1]]
        /\ \A j \in 1..Len(vals) :
              (\A i \in 1..k : s[i] # j) => vals[j] <= vals[s[k]]}

\* torch.topk(mat, k=k, dim=1): one selection per row.
TopK(mat, k) ==
    {f \in [DOMAIN mat -> UNION {TopKRow(mat[l], k) : l \in DOMAIN mat}] :
        \A l \in DOMAIN mat : f[l] \in TopKRow(mat[l], k)}

\* torch.gather(mat, 1, sel)
Gather(mat, sel) ==
    [l \in DOMAIN mat |-> [i \in DOMAIN sel[l] |-> mat[l][sel[l][i]]]]

\* torch.cat([a, b], dim=1)
Cat(a, b) == [l \in DOMAIN a |-> a[l] \o b[l]]

\* (Variant of get_new_top_k that gathers the indices from the arrays
\* concatenated in the other order.)
get_new_top_k_swapped(first_values, first_indices, second_values, second_indices, k) ==
    LET total_values == Cat(first_values, second_values)
        total_indices == Cat(second_indices, first_indices)
    IN  {[values |-> Gather(total_values, indices_of_indices),
          indices |-> Gather(total_indices, indices_of_indices)] :
            indices_of_indices \in TopK(total_values, k)}

\* get_new_top_k: every result the call can return.
get_new_top_k(first_values, first_indices, second_values, second_indices, k) ==
    LET total_values == Cat(first_values, second_values)
        total_indices == Cat(first_indices, second_indices)
    IN  {[values |-> Gather(total_values, indices_of_indices),
          indices |-> Gather(total_indices, indices_of_indices)] :
            indices_of_indices \in TopK(total_values, k)}

\* ------------------------------------------------------------------ state
VARIABLES
    \* get_feature_data: arguments and environment
    dataset_len,                          \* len(dataset)
    number_of_images,
    max_number_of_images_per_iteration,
    number_of_max_activating_images,
    load_pretrained,
    act,                                  \* SAE activation of image i on latent l, -1 until forwarded
    disk,                                 \* the files under dashboard/
    \* get_feature_data: locals
    pc,
    raised,                               \* the exception that ended the run, "" if none
    max_activating_image_indices,
    max_activating_image_values,
    sae_sparsity,
    sae_mean_acts,
    number_of_images_processed,
    fed,                                  \* images run through the forward passes, in order
    png,                                  \* images written by save_highest_activating_images
    \* a call of get_new_top_k on its own
    merge_args,                           \* the four arrays and k
    merge_result,                         \* what the call returned
    merge_pc,
    \* get_sae_activations of app.py: one serving request
    latents,                              \* the request: per model key, how many latents
    response,
    model_i,                              \* position of the loop over latents.items()
    latent_i,                             \* position of the loop over requested_latents
    results,                              \* the list sae_activations of the current model
    top_img_i,                            \* make_sae_activation: the latent's top-k image list
    raw_examples,
    futures,
    orig_url,                             \* the original's encoding, once its result() returned
    examples,
    spc,
    \* a call of add_highlights, from make_sae_activation or on its own
    hl_args,                              \* image size, top_values, the patches and upper
    hl_result,
    hl_pc,
    \* SplitClip: forward_start followed by forward_end
    split_args,                           \* number of resblocks and n_end_layers
    split_applied,                        \* the blocks applied so far, in order
    split_pc,
    \* get_all_model_activations / get_sae_activations of dashboard_fns.py
    batch_args,                           \* which function, number of items, max batch size
    batch_ran,                            \* the mini-batches run so far
    batch_result,                         \* the tensor returned
    batch_pc,
    \* make_sae_activation's example_id handed to get_image
    rt_args,                              \* model key and image index
    rt_example_id,
    rt_result,
    rt_pc

accVars == <<dataset_len, number_of_images, max_number_of_images_per_iteration,
             number_of_max_activating_images, load_pretrained, act, disk, pc, raised,
             max_activating_image_indices, max_activating_image_values, sae_sparsity,
             sae_mean_acts, number_of_images_processed, fed, png>>

args == <<dataset_len, number_of_images, max_number_of_images_per_iteration,
          number_of_max_activating_images>>

mergeVars == <<merge_args, merge_result, merge_pc>>

serveVars == <<latents, response, model_i, latent_i, results, top_img_i, raw_examples,
               futures, orig_url, examples, spc>>

hlVars == <<hl_args, hl_result, hl_pc>>

splitVars == <<split_args, split_applied, split_pc>>

batchVars == <<batch_args, batch_ran, batch_result, batch_pc>>

rtVars == <<rt_args, rt_example_id, rt_result, rt_pc>>

pureVars == <<hlVars, splitVars, batchVars, rtVars>>

vars == <<accVars, mergeVars, serveVars, pureVars>>

Unset == << >>
UnsetInt == -1

NoFiles ==
    [saved |-> FALSE, indices |-> Unset, values |-> Unset, label_indices |-> Unset,
     sparsity |-> Unset, mean_acts |-> Unset]

\* ------------------------------------------------------ get_feature_data
AccInit ==
    /\ dataset_len \in 1..MaxDataset
    /\ number_of_images \in 1..MaxNumberOfImages
    /\ max_number_of_images_per_iteration \in 1..MaxPerIteration
    /\ number_of_max_activating_images \in 1..MaxTopK
    /\ load_pretrained \in BOOLEAN
    /\ act = [l \in Latents |-> [i \in 0..(MaxDataset - 1) |-> -1]]
    /\ disk = NoFiles
    /\ pc = "start"
    /\ raised = ""
    /\ max_activating_image_indices = Unset
    /\ max_activating_image_values = Unset
    /\ sae_sparsity = Unset
    /\ sae_mean_acts = Unset
    /\ number_of_images_processed = UnsetInt
    /\ fed = << >>
    /\ png = {}

AccIdle ==
    /\ dataset_len = 1
    /\ number_of_images = 1
    /\ max_number_of_images_per_iteration = 1
    /\ number_of_max_activating_images = 1
    /\ load_pretrained = FALSE
    /\ act = [l \in Latents |-> [i \in 0..(MaxDataset - 1) |-> -1]]
    /\ disk = NoFiles
    /\ pc = "idle"
    /\ raised = ""
    /\ max_activating_image_indices = Unset
    /\ max_activating_image_values = Unset
    /\ sae_sparsity = Unset
    /\ sae_mean_acts = Unset
    /\ number_of_images_processed = UnsetInt
    /\ fed = << >>
    /\ png = {}

\* Lines 103-134 and 287-293: one file per table entry with a positive value
\* (the [:1000, :10] slice of the call keeps every entry of tables this small).
save_highest_activating_images(indices, values) ==
    {<<e[1], e[2], indices[e[1]][e[2]]>> :
        e \in {x \in (DOMAIN values) \X (1..number_of_max_activating_images) :
                  values[x[1]][x[2]] > 0}}

\* (Variant of Start in which load_pretrained only replaces the zero tables by
\* the loaded ones and the accumulation loop runs all the same.)
StartResuming ==
    /\ pc = "start"
    /\ IF load_pretrained
       THEN IF disk.saved
            THEN /\ max_activating_image_indices' = disk.indices
                 /\ max_activating_image_values' = disk.values
                 /\ pc' = "loop"
                 /\ UNCHANGED raised
            ELSE /\ pc' = "error"
                 /\ raised' = "FileNotFoundError"
                 /\ UNCHANGED <<max_activating_image_indices, max_activating_image_values>>
       ELSE /\ max_activating_image_indices' = Zeros2(number_of_max_activating_images)
            /\ max_activating_image_values' = Zeros2(number_of_max_activating_images)
            /\ pc' = "loop"
            /\ UNCHANGED raised
    /\ sae_sparsity' = Zeros1
    /\ sae_mean_acts' = Zeros1
    /\ number_of_images_processed' = 0
    /\ UNCHANGED <<args, mergeVars, serveVars, pureVars,
                   load_pretrained, act, disk, fed, png>>

\* Lines 185-211 and 287-293: with load_pretrained the tables are loaded from
\* the files and the images are written from them, which ends the run;
\* otherwise the tables, the statistics and the counter are zeroed.
Start ==
    /\ pc = "start"
    /\ IF load_pretrained
       THEN IF disk.saved
            THEN /\ max_activating_image_indices' = disk.indices
                 /\ max_activating_image_values' = disk.values
                 /\ png' = save_highest_activating_images(disk.indices, disk.values)
                 /\ pc' = "done"
                 /\ UNCHANGED raised
            ELSE /\ pc' = "error"
                 /\ raised' = "FileNotFoundError"
                 /\ UNCHANGED <<max_activating_image_indices,
                                max_activating_image_values, png>>
       ELSE /\ max_activating_image_indices' = Zeros2(number_of_max_activating_images)
            /\ max_activating_image_values' = Zeros2(number_of_max_activating_images)
            /\ pc' = "loop"
            /\ UNCHANGED <<raised, png>>
    /\ IF load_pretrained
       THEN UNCHANGED <<sae_sparsity, sae_mean_acts, number_of_images_processed>>
       ELSE /\ sae_sparsity' = Zeros1
            /\ sae_mean_acts' = Zeros1
            /\ number_of_images_processed' = 0
    /\ UNCHANGED <<args, mergeVars, serveVars, pureVars,
                   load_pretrained, act, disk, fed>>

\* The activations the forward passes return for a chunk: one row per latent,
\* one column per image; an image forwarded before gives the same values.
ChunkActivations(images) ==
    {a \in [Latents -> [1..Len(images) -> ActValues]] :
        \A l \in Latents : \A j \in 1..Len(images) :
            act[l][images[j]] \in {-1, a[l][j]}}

Recorded(images, a) ==
    [l \in Latents |-> [i \in 0..(MaxDataset - 1) |->
        IF \E j \in 1..Len(images) : images[j] = i
        THEN a[l][CHOOSE j \in 1..Len(images) : images[j] = i]
        ELSE act[l][i]]]

\* Lines 212-250: one iteration of the accumulation loop.
ProcessChunk ==
    /\ pc = "loop"
    /\ number_of_images_processed < number_of_images
    /\ LET images == Slice(dataset_len, number_of_images_processed,
                           number_of_images_processed + max_number_of_images_per_iteration)
           k == number_of_max_activating_images
       IN  IF images = << >>
           THEN \* get_all_model_activations: torch.cat of an empty list
                /\ pc' = "error"
                /\ raised' = "RuntimeError: cat"
                /\ UNCHANGED <<act, fed, sae_mean_acts, sae_sparsity,
                               max_activating_image_values, max_activating_image_indices,
                               number_of_images_processed>>
           ELSE \E sae_activations \in ChunkActivations(images) :
                /\ act' = Recorded(images, sae_activations)
                /\ fed' = fed \o images
                /\ sae_mean_acts' =
                      [l \in Latents |-> sae_mean_acts[l] + SumSeq(sae_activations[l])]
                /\ sae_sparsity' =
                      [l \in Latents |-> sae_sparsity[l] + CountPositive(sae_activations[l])]
                /\ IF Len(images) < k
                   THEN \* topk: k larger than the number of columns
                        /\ pc' = "error"
                        /\ raised' = "RuntimeError: topk"
                        /\ UNCHANGED <<max_activating_image_values,
                                       max_activating_image_indices,
                                       number_of_images_processed>>
                   ELSE \E sel \in TopK(sae_activations, k) :
                        LET values == Gather(sae_activations, sel)
                            indices == [l \in Latents |-> [r \in 1..k |->
                                          (sel[l][r] - 1) + number_of_images_processed]]
                        IN  \E new \in get_new_top_k(max_activating_image_values,
                                                     max_activating_image_indices,
                                                     values, indices, k) :
                            /\ max_activating_image_values' = new.values
                            /\ max_activating_image_indices' = new.indices
                            /\ number_of_images_processed' =
                                  number_of_images_processed
                                    + max_number_of_images_per_iteration
                            /\ UNCHANGED <<pc, raised>>
    /\ UNCHANGED <<args, mergeVars, serveVars, pureVars,
                   load_pretrained, disk, png>>

\* Lines 252-293: the loop has ended; the statistics are divided in place, the
\* labels are looked up, the five tensors are saved and the images are written.
Persist ==
    /\ pc = "loop"
    /\ ~(number_of_images_processed < number_of_images)
    /\ LET mean == [l \in Latents |-> Divide(sae_mean_acts[l], sae_sparsity[l])]
           sparsity == [l \in Latents |->
                           Divide(sae_sparsity[l], number_of_images_processed)]
           labels == [l \in Latents |->
                         [r \in DOMAIN max_activating_image_indices[l] |->
                             LabelOf(max_activating_image_indices[l][r])]]
       IN  /\ sae_mean_acts' = mean
           /\ sae_sparsity' = sparsity
           /\ disk' = [saved |-> TRUE,
                       indices |-> max_activating_image_indices,
                       values |-> max_activating_image_values,
                       label_indices |-> labels,
                       sparsity |-> sparsity,
                       mean_acts |-> mean]
    /\ png' = save_highest_activating_images(max_activating_image_indices,
                                             max_activating_image_values)
    /\ pc' = "done"
    /\ UNCHANGED <<args, mergeVars, serveVars, pureVars,
                   load_pretrained, act, raised,
                   max_activating_image_indices, max_activating_image_values,
                   number_of_images_processed, fed>>

\* The job is run again on the same dataset with the same arguments, this time
\* with load_pretrained set; the files of the earlier run are still there.
Resume ==
    /\ pc = "done"
    /\ load_pretrained' = TRUE
    /\ pc' = "start"
    /\ max_activating_image_indices' = Unset
    /\ max_activating_image_values' = Unset
    /\ sae_sparsity' = Unset
    /\ sae_mean_acts' = Unset
    /\ number_of_images_processed' = UnsetInt
    /\ fed' = << >>
    /\ png' = {}
    /\ UNCHANGED <<args, mergeVars, serveVars, pureVars,
                   act, disk, raised>>

\* ------------------------------------------------ get_new_top_k on its own
\* One row of arbitrary, unsorted arrays; image indices from a two-element set.
MergeRows == {1}
MergeIndices == {0, 1}

NoMerge == [first_values |-> Unset, first_indices |-> Unset,
            second_values |-> Unset, second_indices |-> Unset, k |-> 0]
NoResult == [values |-> Unset, indices |-> Unset]

MergeIdle ==
    /\ merge_args = NoMerge
    /\ merge_result = NoResult
    /\ merge_pc = "idle"

MergeInit ==
    /\ \E k \in 1..MaxTopK :
          merge_args \in [first_values : [MergeRows -> [1..k -> ActValues]],
                          first_indices : [MergeRows -> [1..k -> MergeIndices]],
                          second_values : [MergeRows -> [1..k -> ActValues]],
                          second_indices : [MergeRows -> [1..k -> MergeIndices]],
                          k : {k}]
    /\ merge_result = NoResult
    /\ merge_pc = "call"

CallGetNewTopK ==
    /\ merge_pc = "call"
    /\ \E new \in get_new_top_k(merge_args.first_values, merge_args.first_indices,
                                merge_args.second_values, merge_args.second_indices,
                                merge_args.k) :
          merge_result' = new
    /\ merge_pc' = "returned"
    /\ UNCHANGED <<merge_args, accVars, serveVars, pureVars>>

\* --------------------------------------------- app.py: the serving request
\* Length of a latent's top-k list (top_k of the loaded tensors).
TopLen == 5
\* Largest number of latents requested for one model key.
MaxRequested == 1
\* Largest number of encode tasks of one call that fail.
MaxEncodeFailures == 1
\* "Only need 4 example images per latent."
MaxExamples == 4

ModelKeys == {"bioclip/inat21", "clip/inat21"}

\* Strings that are formatted, split or parsed are sequences of characters.
\* "inat21__train_mini"
Inat21TrainMini ==
    <<"i", "n", "a", "t", "2", "1", "_", "_",
      "t", "r", "a", "i", "n", "_", "m", "i", "n", "i">>

MODEL_LOOKUP ==
    [m \in ModelKeys |-> [dataset_name |-> Inat21TrainMini]]

\* The keys of the datasets dict
datasets == {Inat21TrainMini}

\* The image lists top_img_i[latent].tolist() can hold, up to the naming of the
\* images (the code only compares image indices): every entry repeats an
\* earlier entry or is the next image not seen so far, and the n-th new image
\* is image TopLen - n, so that images appear in descending order of index.
TopLists ==
    {s \in [1..TopLen -> 0..(TopLen - 1)] :
        \A r \in 1..TopLen :
            LET before == {s[q] : q \in 1..(r - 1)}
            IN  s[r] \in before \/ s[r] = TopLen - (Cardinality(before) + 1)}

\* The requests: a dict from model key to a list of latents, in any key order.
Requests ==
    {q \in UNION {[1..n -> [model_name : ModelKeys, n_latents : 0..MaxRequested]] :
                     n \in 0..Cardinality(ModelKeys)} :
        \A i, j \in DOMAIN q : i # j => q[i].model_name # q[j].model_name}

\* What vips_to_base64 returns for the original or the highlighted image i_im.
Encoded(kind, i_im) == [kind |-> kind, i_im |-> i_im]
NoUrl == [kind |-> "none", i_im |-> -1]

DigitChars == <<"0", "1", "2", "3", "4", "5", "6", "7", "8", "9">>

\* The decimal digits of a natural number, as f"{n}" writes them
RECURSIVE Digits(_)
Digits(n) ==
    IF n < 10 THEN <<DigitChars[n + 1]>>
    ELSE Append(Digits(n \div 10), DigitChars[(n % 10) + 1])

\* f"{i}" of an int
Str(i) == IF i < 0 THEN <<"-">> \o Digits(-i) ELSE Digits(i)

\* (Variant of ExampleId with a single underscore inside the dataset key.)
ExampleIdOneUnderscore(i_im) ==
    <<"i", "n", "a", "t", "2", "1", "_",
      "t", "r", "a", "i", "n", "_", "m", "i", "n", "i", "_", "_">> \o Str(i_im)

\* f"inat21__train_mini__{i_im}"
ExampleId(i_im) ==
    <<"i", "n", "a", "t", "2", "1", "_", "_",
      "t", "r", "a", "i", "n", "_", "m", "i", "n", "i", "_", "_">> \o Str(i_im)

\* str.split(sep): the pieces between the occurrences of sep, found from the
\* left and not overlapping.
RECURSIVE SplitFrom(_, _, _, _)
SplitFrom(str, sep, pos, piece) ==
    IF pos > Len(str) THEN <<piece>>
    ELSE IF /\ pos + Len(sep) - 1 <= Len(str)
            /\ SubSeq(str, pos, pos + Len(sep) - 1) = sep
         THEN <<piece>> \o SplitFrom(str, sep, pos + Len(sep), << >>)
         ELSE SplitFrom(str, sep, pos + 1, Append(piece, str[pos]))

Split(str, sep) == SplitFrom(str, sep, 1, << >>)

RECURSIVE DigitsValue(_)
DigitsValue(str) ==
    IF str = << >> THEN 0
    ELSE 10 * DigitsValue(SubSeq(str, 1, Len(str) - 1))
           + (CHOOSE d \in 0..9 : DigitChars[d + 1] = str[Len(str)])

\* int(str) of a string of an optional sign and decimal digits; any other
\* string of the characters used here is a ValueError.
ParseInt(str) ==
    LET signed == str # << >> /\ str[1] \in {"-", "+"}
        digits == IF signed THEN Tail(str) ELSE str
    IN  IF digits = << >> \/ \E j \in DOMAIN digits : digits[j] \notin Range(DigitChars)
        THEN [raised |-> "ValueError", value |-> 0]
        ELSE [raised |-> "",
              value |-> IF signed /\ str[1] = "-" THEN -DigitsValue(digits)
                        ELSE DigitsValue(digits)]

RECURSIVE GatherNoDedupe(_, _, _, _)
\* (Variant of GatherExamples without the test on seen_i_im.)
GatherNoDedupe(top, r, raw, seen) ==
    IF r > Len(top)
    THEN raw
    ELSE LET i_im == top[r]
             raw2 == Append(raw, [i_im |-> i_im, ex_label |-> LabelOf(i_im)])
             seen2 == seen \cup {i_im}
         IN  IF Len(raw2) >= MaxExamples
             THEN raw2
             ELSE GatherNoDedupe(top, r + 1, raw2, seen2)

RECURSIVE GatherExamples(_, _, _, _)
\* Lines 471-485: the loop over zip(top_img_i, top_values) from rank r on.
GatherExamples(top, r, raw, seen) ==
    IF r > Len(top)
    THEN raw
    ELSE LET i_im == top[r]
         IN  IF i_im \in seen
             THEN GatherExamples(top, r + 1, raw, seen)
             ELSE LET raw2 == Append(raw, [i_im |-> i_im, ex_label |-> LabelOf(i_im)])
                      seen2 == seen \cup {i_im}
                  IN  IF Cardinality(seen2) >= MaxExamples
                      THEN raw2
                      ELSE GatherExamples(top, r + 1, raw2, seen2)

\* (Variant of Ready that does not wait for the task.)
ReadyAtOnce(status) == TRUE

\* Future.result() blocks while the task is pending.
Ready(status) == status # "pending"

\* What Future.result() returns for a task that is over.
ResultOf(status, kind, i_im) ==
    IF status = "done" THEN Encoded(kind, i_im) ELSE NoUrl

ServeIdle ==
    /\ latents = << >>
    /\ response = << >>
    /\ model_i = 0
    /\ latent_i = 0
    /\ results = << >>
    /\ top_img_i = << >>
    /\ raw_examples = << >>
    /\ futures = << >>
    /\ orig_url = NoUrl
    /\ examples = << >>
    /\ spc = "idle"

ServeInit ==
    /\ latents \in Requests
    /\ response = << >>
    /\ model_i = 1
    /\ latent_i = 0
    /\ results = << >>
    /\ top_img_i = << >>
    /\ raw_examples = << >>
    /\ futures = << >>
    /\ orig_url = NoUrl
    /\ examples = << >>
    /\ spc = "model_loop"

\* Lines 528-542 and 556: the next model key of the request, or, after the
\* last one, the end of the with block and the return of the response.
ModelLoop ==
    /\ spc = "model_loop"
    /\ IF model_i <= Len(latents)
       THEN /\ results' = << >>
            /\ latent_i' = 1
            /\ spc' = "latent_loop"
       ELSE /\ spc' = "responded"
            /\ UNCHANGED <<results, latent_i>>
    /\ UNCHANGED <<latents, response, model_i, top_img_i, raw_examples, futures,
                   orig_url, examples, accVars, mergeVars, pureVars>>

\* Lines 544-555 and 470-487: the next requested latent, for which
\* make_sae_activation is called and gathers its examples; or, after the
\* last one, the model's list is stored in the response.
LatentLoop ==
    /\ spc = "latent_loop"
    /\ IF latent_i <= latents[model_i].n_latents
       THEN \E top \in TopLists :
            /\ top_img_i' = top
            /\ raw_examples' = GatherExamples(top, 1, << >>, {})
            /\ futures' = << >>
            /\ examples' = << >>
            /\ orig_url' = NoUrl
            /\ spc' = "submit"
            /\ UNCHANGED <<response, model_i>>
       ELSE /\ response' = Append(response, [model_name |-> latents[model_i].model_name,
                                             sae_activations |-> results])
            /\ model_i' = model_i + 1
            /\ spc' = "model_loop"
            /\ UNCHANGED <<top_img_i, raw_examples, futures, examples, orig_url>>
    /\ UNCHANGED <<latents, latent_i, results, accVars, mergeVars, pureVars>>

\* Lines 490-495: one iteration of the loop over raw_examples, which submits
\* the two conversions of an example to the pool.
Submit ==
    /\ spc = "submit"
    /\ LET e == raw_examples[Len(futures) + 1]
       IN  futures' = Append(futures, [i_im |-> e.i_im, orig_future |-> "pending",
                                       highlight_future |-> "pending",
                                       ex_label |-> e.ex_label])
    /\ spc' = IF Len(futures) + 1 = Len(raw_examples) THEN "wait" ELSE "submit"
    /\ UNCHANGED <<latents, response, model_i, latent_i, results, top_img_i,
                   raw_examples, orig_url, examples, accVars, mergeVars, pureVars>>

Failures ==
    Cardinality({j \in DOMAIN futures : futures[j].orig_future = "failed"})
    + Cardinality({j \in DOMAIN futures : futures[j].highlight_future = "failed"})

Outcomes == IF Failures < MaxEncodeFailures THEN {"done", "failed"} ELSE {"done"}

\* A pool worker ends vips_to_base64 on an original image. (A call has at most
\* 2 * MaxExamples tasks in the pool, fewer than its 16 workers: every pending
\* task can be the next one to end.)
EncodeOrig ==
    /\ \E j \in DOMAIN futures : \E outcome \in Outcomes :
          /\ futures[j].orig_future = "pending"
          /\ futures' = [futures EXCEPT ![j].orig_future = outcome]
    /\ UNCHANGED <<latents, response, model_i, latent_i, results, top_img_i,
                   raw_examples, orig_url, examples, spc, accVars, mergeVars, pureVars>>

\* A pool worker ends vips_to_base64 on a highlighted image.
EncodeHighlight ==
    /\ \E j \in DOMAIN futures : \E outcome \in Outcomes :
          /\ futures[j].highlight_future = "pending"
          /\ futures' = [futures EXCEPT ![j].highlight_future = outcome]
    /\ UNCHANGED <<latents, response, model_i, latent_i, results, top_img_i,
                   raw_examples, orig_url, examples, spc, accVars, mergeVars, pureVars>>

\* Line 501: orig_future.result() of the next example.
WaitOrig ==
    /\ spc = "wait"
    /\ orig_url = NoUrl
    /\ LET f == futures[Len(examples) + 1]
       IN  /\ Ready(f.orig_future)
           /\ IF f.orig_future = "failed"
              THEN /\ spc' = "raising"
                   /\ UNCHANGED orig_url
              ELSE /\ orig_url' = ResultOf(f.orig_future, "orig", f.i_im)
                   /\ UNCHANGED spc
    /\ UNCHANGED <<latents, response, model_i, latent_i, results, top_img_i,
                   raw_examples, futures, examples, accVars, mergeVars, pureVars>>

\* Lines 502-510 and 545: highlight_future.result() of the example, which
\* completes it; after the last example the call returns and its result is
\* appended to the model's list.
WaitHighlight ==
    /\ spc = "wait"
    /\ orig_url # NoUrl
    /\ LET f == futures[Len(examples) + 1]
           example == [orig_url |-> orig_url,
                       highlighted_url |-> ResultOf(f.highlight_future, "highlighted", f.i_im),
                       label |-> f.ex_label,
                       example_id |-> ExampleId(f.i_im)]
       IN  /\ Ready(f.highlight_future)
           /\ IF f.highlight_future = "failed"
              THEN /\ spc' = "raising"
                   /\ UNCHANGED <<examples, orig_url, results, latent_i>>
              ELSE /\ examples' = Append(examples, example)
                   /\ orig_url' = NoUrl
                   /\ IF Len(examples) + 1 = Len(futures)
                      THEN /\ results' = Append(results,
                                            [model_name |-> latents[model_i].model_name,
                                             examples |-> Append(examples, example)])
                           /\ latent_i' = latent_i + 1
                           /\ spc' = "latent_loop"
                      ELSE UNCHANGED <<results, latent_i, spc>>
    /\ UNCHANGED <<latents, response, model_i, top_img_i, raw_examples, futures,
                   accVars, mergeVars, pureVars>>

\* (Variant of PoolExit in which the failure only costs the latent: the request
\* goes on with the next one.)
PoolExitIsolated ==
    /\ spc = "raising"
    /\ \A j \in DOMAIN futures :
          futures[j].orig_future # "pending" /\ futures[j].highlight_future # "pending"
    /\ spc' = "latent_loop"
    /\ latent_i' = latent_i + 1
    /\ UNCHANGED <<latents, response, model_i, results, top_img_i,
                   raw_examples, futures, orig_url, examples, accVars, mergeVars, pureVars>>

\* Line 527: the exception leaves the with block, whose exit waits for the
\* tasks still in the pool; the request ends without a response.
PoolExit ==
    /\ spc = "raising"
    /\ \A j \in DOMAIN futures :
          futures[j].orig_future # "pending" /\ futures[j].highlight_future # "pending"
    /\ spc' = "error"
    /\ UNCHANGED <<latents, response, model_i, latent_i, results, top_img_i,
                   raw_examples, futures, orig_url, examples, accVars, mergeVars, pureVars>>

\* ---------------------------------------------------------- specifications

\* ---------------------------------------------------------------------------
\* SplitClip (app.py 179-233): the vision transformer cut in two.

MaxBlocks == 8

\* Python's seq[start:stop] for integers of either sign: a negative bound counts
\* from the end, both are clamped to 0..len(seq); -0 is 0.
PyBound(i, len) ==
    IF i < 0 THEN (IF i + len < 0 THEN 0 ELSE i + len)
             ELSE (IF i > len THEN len ELSE i)

PySlice(seq, start, stop) ==
    LET lo == PyBound(start, Len(seq))
        hi == PyBound(stop, Len(seq))
    IN  IF hi <= lo THEN << >> ELSE [j \in 1..(hi - lo) |-> seq[lo + j]]

\* self.vit.transformer.resblocks, the blocks numbered from 0
resblocks(n_blocks) == [j \in 1..n_blocks |-> j - 1]

NoSplit == << >>

SplitIdle == split_args = NoSplit /\ split_applied = << >> /\ split_pc = "idle"

\* Lines 180-199: a model of n_blocks resblocks is wrapped with n_end_layers
SplitInit ==
    /\ \E n_blocks \in 1..MaxBlocks : \E n_end_layers \in 0..n_blocks :
          split_args = [n_blocks |-> n_blocks, n_end_layers |-> n_end_layers]
    /\ split_applied = [forward_start |-> << >>, forward_end |-> << >>]
    /\ split_pc = "constructed"

\* Lines 205-222: resblocks[: -self.n_end_layers] are applied in order
forward_start ==
    /\ split_pc = "constructed"
    /\ split_applied' =
          [split_applied EXCEPT !.forward_start =
              PySlice(resblocks(split_args.n_blocks), 0, -split_args.n_end_layers)]
    /\ split_pc' = "started"
    /\ UNCHANGED <<split_args, accVars, mergeVars, serveVars, hlVars, batchVars, rtVars>>

\* Lines 224-233: resblocks[-self.n_end_layers :] are applied in order
forward_end ==
    /\ split_pc = "started"
    /\ split_applied' =
          [split_applied EXCEPT !.forward_end =
              PySlice(resblocks(split_args.n_blocks), -split_args.n_end_layers,
                      split_args.n_blocks)]
    /\ split_pc' = "ended"
    /\ UNCHANGED <<split_args, accVars, mergeVars, serveVars, hlVars, batchVars, rtVars>>


\* ---------------------------------------------------------------------------
\* get_all_model_activations and get_sae_activations (dashboard_fns.py 27-83):
\* the input is run in mini-batches of at most max_batch_size items.

MaxItems == 6
MaxBatchSize == 4

BatchFns == {"get_all_model_activations", "get_sae_activations"}

\* The row the model (or the autoencoder) yields for an item, whatever batch the
\* item is run in.
RowOf(fn, item) == [fn |-> fn, of |-> item]

\* get_model_activations / run_with_cache on one mini-batch: one row per item
RunBatch(fn, items) == [j \in DOMAIN items |-> RowOf(fn, items[j])]

\* (Variant of RemainderBatch that takes the first `remainder` items.)
RemainderBatchHead(items, remainder) == PySlice(items, 0, remainder)

\* Lines 44, 76: images[-remainder:]
RemainderBatch(items, remainder) == PySlice(items, -remainder, Len(items))

\* torch.cat(..., dim=0) of a list of batches
RECURSIVE CatBatches(_)
CatBatches(batches) ==
    IF batches = << >> THEN << >>
    ELSE Head(batches) \o CatBatches(Tail(batches))

BatchIdle ==
    /\ batch_args = << >> /\ batch_ran = << >> /\ batch_result = << >>
    /\ batch_pc = "idle"

\* Lines 27-31, 55-63: the call and its first four statements
BatchInit ==
    /\ \E fn \in BatchFns : \E n \in 1..MaxItems : \E max_batch_size \in 1..MaxBatchSize :
          batch_args = [fn |-> fn,
                        items |-> [j \in 1..n |-> j - 1],
                        max_batch_size |-> max_batch_size,
                        number_of_mini_batches |-> n \div max_batch_size,
                        remainder |-> n % max_batch_size]
    /\ batch_ran = << >>
    /\ batch_result = << >>
    /\ batch_pc = "loop"

\* Lines 32-41, 64-73: one iteration of the loop over the full mini-batches
MiniBatch ==
    /\ batch_pc = "loop"
    /\ Len(batch_ran) < batch_args.number_of_mini_batches
    /\ LET mini_batch == Len(batch_ran)
           image_batch == PySlice(batch_args.items,
                                  mini_batch * batch_args.max_batch_size,
                                  (mini_batch + 1) * batch_args.max_batch_size)
       IN  batch_ran' = Append(batch_ran,
                               [items |-> image_batch,
                                rows |-> RunBatch(batch_args.fn, image_batch)])
    /\ UNCHANGED <<batch_args, batch_result, batch_pc,
                   accVars, mergeVars, serveVars, hlVars, splitVars, rtVars>>

\* Lines 43-52, 75-83: the loop has ended; the remainder is run if there is one,
\* the batches are concatenated and returned.
RemainderAndCat ==
    /\ batch_pc = "loop"
    /\ Len(batch_ran) = batch_args.number_of_mini_batches
    /\ LET image_batch == RemainderBatch(batch_args.items, batch_args.remainder)
           sae_batches ==
               IF batch_args.remainder > 0
               THEN Append(batch_ran, [items |-> image_batch,
                                       rows |-> RunBatch(batch_args.fn, image_batch)])
               ELSE batch_ran
       IN  /\ batch_ran' = sae_batches
           /\ batch_result' =
                 CatBatches([j \in DOMAIN sae_batches |-> sae_batches[j].rows])
    /\ batch_pc' = "returned"
    /\ UNCHANGED <<batch_args, accVars, mergeVars, serveVars, hlVars, splitVars, rtVars>>


\* ---------------------------------------------------------------------------
\* The example_id of make_sae_activation (app.py 470, 504) handed back to
\* get_image (app.py 304-310).

MaxIndex == 120

NoImage == [raised |-> "", key |-> << >>, i |-> 0]

RoundTripIdle ==
    /\ rt_args = << >> /\ rt_example_id = << >> /\ rt_result = NoImage
    /\ rt_pc = "idle"

\* An example of image i_im is to be made for a model key
RoundTripInit ==
    /\ \E model_name \in ModelKeys : \E i_im \in 0..MaxIndex :
          rt_args = [model_name |-> model_name, i_im |-> i_im]
    /\ rt_example_id = << >>
    /\ rt_result = NoImage
    /\ rt_pc = "make"

\* Lines 499-505: the Example is built with its example_id
EmitExampleId ==
    /\ rt_pc = "make"
    /\ rt_example_id' = ExampleId(rt_args.i_im)
    /\ rt_pc' = "emitted"
    /\ UNCHANGED <<rt_args, rt_result, accVars, mergeVars, serveVars,
                   hlVars, splitVars, batchVars>>

\* Lines 304-310, 166: get_image on the emitted id, up to the dataset lookup
get_image ==
    /\ rt_pc = "emitted"
    /\ LET parts == Split(rt_example_id, <<"_", "_">>)
       IN  IF Len(parts) # 3
           THEN rt_result' = [raised |-> "ValueError", key |-> << >>, i |-> 0]
           ELSE LET i == ParseInt(parts[3])
                    key == parts[1] \o <<"_", "_">> \o parts[2]
                IN  IF i.raised # ""
                    THEN rt_result' = [raised |-> i.raised, key |-> << >>, i |-> 0]
                    ELSE IF key \notin datasets
                    THEN rt_result' = [raised |-> "KeyError", key |-> key, i |-> i.value]
                    ELSE rt_result' = [raised |-> "", key |-> key, i |-> i.value]
    /\ rt_pc' = "got"
    /\ UNCHANGED <<rt_args, rt_example_id, accVars, mergeVars, serveVars,
                   hlVars, splitVars, batchVars>>


\* ---------------------------------------------------------------------------
\* add_highlights (app.py 314-362), called on its own and from
\* make_sae_activation (app.py 487-491).

MaxSide == 4
MaxPatches == 4
MaxRows == 2
\* CROP_SIZE: to_sized returns images of 448 x 448
CropSide == 448

\* upper: float | None
NoUpper == [none |-> TRUE, value |-> 0]
GivenUpper(u) == [none |-> FALSE, value |-> u]

\* What the build and the magnitude of the activations decide. Patch values
\* and upper are whole numbers of a unit. eps: how 1e-9 compares with the unit:
\* "unit", eps is one unit; "small", one unit is ManyEps eps and the sum
\* upper + 1e-9 is above upper; "absorbed", upper + 1e-9 rounds to upper
\* (float32 arithmetic under NumPy 2, or large activations).
\* overflow: what storing a Python int outside 0..255 into a uint8 array does,
\* wrap around modulo 256 (older NumPy) or raise OverflowError (NumPy 2).
ManyEps == 1000

Builds == [eps : {"unit", "small", "absorbed"}, overflow : {"wrap", "raise"}]

MaxOf(S) == CHOOSE m \in S : \A x \in S : x <= m

\* int(math.sqrt(n))
Isqrt(n) == MaxOf({g \in 0..n : g * g <= n})

\* int(scale * (val / (upper + 1e-9))) for val >= 0 and upper >= 0
IntScaled(scale, val, upper, build) ==
    IF build.eps = "absorbed" /\ upper > 0
    THEN (scale * val) \div upper
    ELSE LET u == IF build.eps = "unit" THEN 1 ELSE ManyEps
         IN  (scale * val * u) \div (upper * u + 1)

Uint8 == 0..255

AssertionError == [raised |-> "AssertionError", highlighted |-> FALSE,
                   patch_w |-> 0, patch_h |-> 0, overlay |-> << >>]

OverflowError == [raised |-> "OverflowError", highlighted |-> FALSE,
                  patch_w |-> 0, patch_h |-> 0, overlay |-> << >>]

\* Lines 336-362: the image returned, as its overlay cells, or the exception
add_highlights(width, height, patches, upper, build) ==
    LET n == Len(patches)
        grid_w == Isqrt(n)
        grid_h == Isqrt(n)
        patch_w == width \div grid_w
        patch_h == height \div grid_h
        cell(idx) ==
            LET red == IntScaled(255, patches[idx], upper.value, build)
                alpha == IntScaled(128, patches[idx], upper.value, build)
            IN  [x |-> ((idx - 1) % grid_w) * patch_w,
                 y |-> ((idx - 1) \div grid_w) * patch_h,
                 red_int |-> red, alpha_int |-> alpha,
                 red |-> red % 256, alpha |-> alpha % 256]
    IN  IF n = 0
        THEN [raised |-> "", highlighted |-> FALSE,
              patch_w |-> 0, patch_h |-> 0, overlay |-> << >>]
        ELSE IF grid_w * grid_h # n THEN AssertionError
        ELSE IF patch_w # patch_h THEN AssertionError
        ELSE IF upper.none THEN AssertionError
        ELSE IF /\ build.overflow = "raise"
                /\ \E idx \in 1..n :
                      cell(idx).red_int \notin Uint8 \/ cell(idx).alpha_int \notin Uint8
        THEN OverflowError
        ELSE [raised |-> "", highlighted |-> TRUE,
              patch_w |-> patch_w, patch_h |-> patch_h,
              overlay |-> [idx \in 1..n |-> cell(idx)]]

\* The patch vectors of at most max_len values
PatchVectors(lens) == UNION {[1..n -> 0..MaxAct] : n \in lens}

HighlightIdle == hl_args = << >> /\ hl_result = << >> /\ hl_pc = "idle"

\* A call of add_highlights with any image size, patch vector and upper
HighlightInit ==
    /\ \E width \in 1..MaxSide : \E height \in 1..MaxSide :
       \E patches \in PatchVectors(0..MaxPatches) :
       \E upper \in {NoUpper} \cup {GivenUpper(u) : u \in 0..MaxAct} :
       \E build \in Builds :
          hl_args = [width |-> width, height |-> height, top_values |-> <<patches>>,
                     kept |-> <<1>>, upper |-> upper, build |-> build]
    /\ hl_result = << >>
    /\ hl_pc = "call"

CallAddHighlights ==
    /\ hl_pc = "call"
    /\ hl_result' = <<add_highlights(hl_args.width, hl_args.height,
                                     hl_args.top_values[1], hl_args.upper,
                                     hl_args.build)>>
    /\ hl_pc' = "returned"
    /\ UNCHANGED <<hl_args, accVars, mergeVars, serveVars, splitVars, batchVars, rtVars>>

\* (Variant of Upper that looks at the first example only.)
UpperOfFirstRow(top_values) == MaxOf(Range(top_values[1]))

\* Line 487: top_values.max().item()
Upper(top_values) == MaxOf(UNION {Range(top_values[r]) : r \in DOMAIN top_values})

\* make_sae_activation after its gather loop: top_values holds one row of
\* non-negative patch values per top image, raw_examples the rows of the images
\* kept, the first one always among them; every image is CropSide square.
RenderInit ==
    /\ \E n_rows \in 1..MaxRows : \E n_patches \in 1..MaxPatches :
       \E top_values \in [1..n_rows -> PatchVectors({n_patches})] :
       \E kept_rows \in {K \in SUBSET (1..n_rows) : 1 \in K /\ Cardinality(K) <= MaxExamples} :
       \E build \in Builds :
          hl_args = [width |-> CropSide, height |-> CropSide, top_values |-> top_values,
                     kept |-> [j \in 1..Cardinality(kept_rows) |->
                                 CHOOSE r \in kept_rows :
                                     Cardinality({q \in kept_rows : q < r}) = j - 1],
                     upper |-> NoUpper, build |-> build]
    /\ hl_result = << >>
    /\ hl_pc = "upper"

\* Line 487
ComputeUpper ==
    /\ hl_pc = "upper"
    /\ hl_args' = [hl_args EXCEPT !.upper = GivenUpper(Upper(hl_args.top_values))]
    /\ hl_pc' = "submit"
    /\ UNCHANGED <<hl_result, accVars, mergeVars, serveVars, splitVars, batchVars, rtVars>>

\* Lines 489-491: the next raw example is highlighted; an exception ends the call
HighlightExample ==
    /\ hl_pc = "submit"
    /\ Len(hl_result) < Len(hl_args.kept)
    /\ LET values_p == hl_args.top_values[hl_args.kept[Len(hl_result) + 1]]
           highlighted_img == add_highlights(hl_args.width, hl_args.height, values_p,
                                             hl_args.upper, hl_args.build)
       IN  /\ hl_result' = Append(hl_result, highlighted_img)
           /\ hl_pc' = IF highlighted_img.raised # "" THEN "error"
                       ELSE IF Len(hl_result) + 1 = Len(hl_args.kept) THEN "submitted"
                       ELSE "submit"
    /\ UNCHANGED <<hl_args, accVars, mergeVars, serveVars, splitVars, batchVars, rtVars>>

PureIdle ==
    /\ HighlightIdle
    /\ SplitIdle
    /\ BatchIdle
    /\ RoundTripIdle

Init == AccInit /\ MergeIdle /\ ServeIdle /\ PureIdle
Next == Start \/ ProcessChunk \/ Persist \/ Resume
Spec == Init /\ [][Next]_vars

InitMerge == AccIdle /\ MergeInit /\ ServeIdle /\ PureIdle
NextMerge == CallGetNewTopK
SpecMerge == InitMerge /\ [][NextMerge]_vars

InitServe == AccIdle /\ MergeIdle /\ ServeInit /\ PureIdle
NextServe ==
    ModelLoop \/ LatentLoop \/ Submit \/ EncodeOrig \/ EncodeHighlight
      \/ WaitOrig \/ WaitHighlight \/ PoolExit
SpecServe == InitServe /\ [][NextServe]_vars

InitSplit ==
    /\ AccIdle /\ MergeIdle /\ ServeIdle /\ SplitInit
    /\ HighlightIdle
    /\ BatchIdle
    /\ RoundTripIdle

NextSplit == forward_start \/ forward_end

SpecSplit == InitSplit /\ [][NextSplit]_vars

InitBatch ==
    /\ AccIdle /\ MergeIdle /\ ServeIdle /\ SplitIdle /\ BatchInit
    /\ HighlightIdle
    /\ RoundTripIdle

NextBatch == MiniBatch \/ RemainderAndCat

SpecBatch == InitBatch /\ [][NextBatch]_vars

InitRoundTrip ==
    /\ AccIdle /\ MergeIdle /\ ServeIdle /\ SplitIdle /\ BatchIdle /\ RoundTripInit
    /\ HighlightIdle

NextRoundTrip == EmitExampleId \/ get_image

SpecRoundTrip == InitRoundTrip /\ [][NextRoundTrip]_vars

InitHighlight ==
    /\ AccIdle /\ MergeIdle /\ ServeIdle /\ SplitIdle /\ BatchIdle /\ RoundTripIdle
    /\ HighlightInit

NextHighlight == CallAddHighlights

SpecHighlight == InitHighlight /\ [][NextHighlight]_vars

InitRender ==
    /\ AccIdle /\ MergeIdle /\ ServeIdle /\ SplitIdle /\ BatchIdle /\ RoundTripIdle
    /\ RenderInit

NextRender == ComputeUpper \/ HighlightExample

SpecRender == InitRender /\ [][NextRender]_vars

\* ================================================================ claims
\* ---- get_feature_data (specification Spec)
TablesSet == max_activating_image_values # Unset

Descending(values) ==
    \A l \in DOMAIN values : \A r1, r2 \in DOMAIN values[l] :
        r1 < r2 => values[l][r1] >= values[l][r2]

NoDuplicates(indices) ==
    \A l \in DOMAIN indices : \A r1, r2 \in DOMAIN indices[l] :
        r1 # r2 => indices[l][r1] # indices[l][r2]

\* The run in progress is an accumulation (not a load_pretrained run) whose
\* loop has ended and whose tensors are saved.
Accumulated == ~load_pretrained /\ pc = "done"

\* Number of images of this run on which latent l fired, and the sum of its
\* activations over them.
Fired(l) == Cardinality({j \in DOMAIN fed : act[l][fed[j]] > 0})
SumFed(l) == SumSeq([j \in DOMAIN fed |-> act[l][fed[j]]])

\* C1: in every state of the accumulation, and in the saved table, the values
\* of each latent are in descending order across the ranks.
C1_DescendingOrder ==
    /\ TablesSet => Descending(max_activating_image_values)
    /\ disk.saved => Descending(disk.values)

\* Two chunks have been merged and a saved row holds two different positive values.
C1_Witness ==
    /\ disk.saved
    /\ Len(fed) > max_number_of_images_per_iteration
    /\ \E l \in Latents : \E r \in 1..(number_of_max_activating_images - 1) :
          disk.values[l][r] > disk.values[l][r + 1] /\ disk.values[l][r + 1] > 0

\* C3 (as claimed): with B not dividing N and a dataset of at least N images,
\* when the loop has ended exactly the images 0..N-1 have been fed, each once,
\* and the counter equals N.
C3_ImageCountConservation ==
    (/\ Accumulated
     /\ number_of_images % max_number_of_images_per_iteration # 0
     /\ dataset_len >= number_of_images)
    => /\ fed = [j \in 1..number_of_images |-> j - 1]
       /\ number_of_images_processed = number_of_images

\* C4 (as claimed): in every state of the accumulation and in the saved table,
\* the image indices of each latent are pairwise distinct.
C4_NoDuplicateIndices ==
    /\ TablesSet => NoDuplicates(max_activating_image_indices)
    /\ disk.saved => NoDuplicates(disk.indices)

\* C5 (as claimed): the saved sparsity of each latent is the number of fed
\* images on which it fired divided by the number of images fed.
C5_SparsityIsFiringFraction ==
    Accumulated =>
        \A l \in Latents :
            /\ disk.sparsity[l].kind = "num"
            /\ disk.sparsity[l].num * Len(fed) = Fired(l) * disk.sparsity[l].den

\* C6: once the loop has ended the five tensors are saved; the mean activation
\* of a latent that fired on no image is NaN, that of every other latent is its
\* activation sum over its firing count; and a run only ends in an error inside
\* the loop, never at the division.
C6_NeverFiringIsNaN ==
    /\ Accumulated =>
          /\ disk.saved
          /\ disk.indices = max_activating_image_indices
          /\ disk.values = max_activating_image_values
          /\ disk.label_indices # Unset
          /\ disk.sparsity = sae_sparsity
          /\ disk.mean_acts = sae_mean_acts
          /\ \A l \in Latents :
                IF Fired(l) = 0
                THEN sae_mean_acts[l] = NaN
                ELSE sae_mean_acts[l] = Float(SumFed(l), Fired(l))
    /\ (pc = "error" /\ ~load_pretrained) =>
          number_of_images_processed < number_of_images

\* A saved run over at least two images in which one latent never fired and
\* another one did.
C6_Witness ==
    /\ Accumulated
    /\ Len(fed) >= 2
    /\ \E l1, l2 \in Latents :
          /\ Fired(l1) = 0 /\ disk.mean_acts[l1] = NaN
          /\ Fired(l2) > 0 /\ disk.mean_acts[l2].kind = "num"

\* C7 (as claimed): a run with load_pretrained streams chunks and merges them
\* into the loaded table.
C7_ResumesAccumulation ==
    (load_pretrained /\ pc = "done") => Len(fed) > 0

\* C7 (amended): a run with load_pretrained takes the saved table as it is: no
\* chunk is fed or merged, the statistics and the counter are never set, the
\* files are left as they were and the images are written from the loaded table.
C7_LoadSkipsAccumulation ==
    (load_pretrained /\ pc = "done") =>
        /\ disk.saved
        /\ max_activating_image_indices = disk.indices
        /\ max_activating_image_values = disk.values
        /\ fed = << >>
        /\ sae_sparsity = Unset
        /\ sae_mean_acts = Unset
        /\ number_of_images_processed = UnsetInt
        /\ png = save_highest_activating_images(disk.indices, disk.values)

\* A finished load_pretrained run over a table that a two-chunk accumulation saved.
C7_Witness ==
    /\ load_pretrained
    /\ pc = "done"
    /\ png # {}
    /\ dataset_len > max_number_of_images_per_iteration
    /\ number_of_images > max_number_of_images_per_iteration

\* C8 (as claimed): with a dataset of M < number_of_images images the run does
\* not end in an error, and when the loop has ended exactly the M images have
\* been fed and the table is saved. (Stated for a top-1 table, for which every
\* chunk that holds an image holds enough of them for topk.)
C8_EndOfDatasetTerminates ==
    (/\ ~load_pretrained
     /\ dataset_len < number_of_images
     /\ number_of_max_activating_images = 1) =>
        /\ pc # "error"
        /\ pc = "done" =>
              /\ fed = [j \in 1..dataset_len |-> j - 1]
              /\ disk.saved
              /\ disk.indices = max_activating_image_indices

\* ---- get_new_top_k (specification SpecMerge)
RECURSIVE InsertDesc(_, _)
InsertDesc(x, sorted) ==
    IF sorted = << >> THEN <<x>>
    ELSE IF x >= Head(sorted) THEN <<x>> \o sorted
    ELSE <<Head(sorted)>> \o InsertDesc(x, Tail(sorted))

RECURSIVE SortDesc(_)
SortDesc(seq) ==
    IF seq = << >> THEN << >> ELSE InsertDesc(Head(seq), SortDesc(Tail(seq)))

BagOf(seq) ==
    [v \in Range(seq) |-> Cardinality({i \in DOMAIN seq : seq[i] = v})]

\* C2: the values get_new_top_k returns for a row are, as a multiset, the k
\* first of the row's 2k values sorted in descending order, and every returned
\* (value, index) pair is a pair of one of the two inputs.
C2_MergeEquivalence ==
    merge_pc = "returned" =>
        \A l \in MergeRows :
            LET union_values == merge_args.first_values[l] \o merge_args.second_values[l]
                union_indices == merge_args.first_indices[l] \o merge_args.second_indices[l]
                k == merge_args.k
            IN  /\ Len(merge_result.values[l]) = k
                /\ Len(merge_result.indices[l]) = k
                /\ BagOf(merge_result.values[l]) = BagOf(SubSeq(SortDesc(union_values), 1, k))
                /\ \A r \in 1..k : \E q \in 1..(2 * k) :
                      /\ union_values[q] = merge_result.values[l][r]
                      /\ union_indices[q] = merge_result.indices[l][r]

\* A merge of unsorted arrays whose result takes its first entry from the second
\* array and its second entry from the first, with different indices.
C2_Witness ==
    /\ merge_pc = "returned"
    /\ merge_args.k = 2
    /\ \E l \in MergeRows :
          /\ merge_args.first_values[l][1] < merge_args.first_values[l][2]
          /\ merge_result.values[l][1] > merge_result.values[l][2]
          /\ merge_result.values[l][1] \notin Range(merge_args.first_values[l])
          /\ merge_result.values[l][2] \notin Range(merge_args.second_values[l])
          /\ merge_result.indices[l][1] # merge_result.indices[l][2]

\* ---- make_sae_activation (specification SpecServe)
\* make_sae_activation has just returned: its result is the last of the list.
Returned == spc = "latent_loop" /\ results # << >>

LastExamples == results[Len(results)].examples

\* The image an example was made from, as its example_id names it.
ImageOf(example) == ParseInt(Split(example.example_id, <<"_", "_">>)[3]).value

\* The ranks at which an image occurs for the first time in the list.
FirstRanks(top) == {r \in DOMAIN top : \A q \in 1..(r - 1) : top[q] # top[r]}

\* C9: the call returns min(4, d) examples for a list of d distinct images;
\* their images are pairwise distinct and are the first d images of the list
\* in order of first occurrence; the request only ends in an error when an
\* encode task failed.
C9_ExampleAssembly ==
    /\ Returned =>
          LET d == Cardinality(Range(top_img_i))
              firsts == FirstRanks(top_img_i)
          IN  /\ Len(LastExamples) = Min(4, d)
              /\ \A i, j \in DOMAIN LastExamples :
                    i # j => ImageOf(LastExamples[i]) # ImageOf(LastExamples[j])
              /\ \A j \in DOMAIN LastExamples : \E r \in firsts :
                    /\ Cardinality({q \in firsts : q < r}) = j - 1
                    /\ ImageOf(LastExamples[j]) = top_img_i[r]
    /\ spc \in {"raising", "error"} => Failures > 0

\* A list of 3 distinct images, one of them at two ranks that are not adjacent,
\* gave 3 examples.
C9_Witness ==
    /\ Returned
    /\ Cardinality(Range(top_img_i)) = 3
    /\ top_img_i[1] = top_img_i[3]
    /\ Len(LastExamples) = 3

\* C10: when the call returns, every encode task it submitted is over, two per
\* gathered image, and the examples are the gathered images in their order,
\* each with the encodings of its own original and highlighted image.
C10_BlocksUntilAllEncoded ==
    Returned =>
        /\ Len(futures) = Len(raw_examples)
        /\ \A j \in DOMAIN futures :
              futures[j].orig_future = "done" /\ futures[j].highlight_future = "done"
        /\ Len(LastExamples) = Len(raw_examples)
        /\ \A j \in DOMAIN LastExamples :
              /\ LastExamples[j].orig_url = Encoded("orig", raw_examples[j].i_im)
              /\ LastExamples[j].highlighted_url =
                    Encoded("highlighted", raw_examples[j].i_im)
              /\ ImageOf(LastExamples[j]) = raw_examples[j].i_im

\* The second call of a request returned 4 examples.
C10_Witness ==
    /\ Returned
    /\ Len(response) = 1
    /\ Len(LastExamples) = 4

\* C11: a request in which an encode task failed is inside the failing call or
\* has ended in the error: it never goes on to another latent or model key and
\* never returns a response, whatever was encoded or completed before.
C11_FailureAbortsRequest ==
    Failures > 0 => spc \in {"submit", "wait", "raising", "error"}

\* The request ended in the error although an earlier model key was completed
\* and an example of the failing call was encoded.
C11_Witness ==
    /\ spc = "error"
    /\ Failures = 1
    /\ Len(response) = 1
    /\ Len(examples) >= 1

\* ---- get_feature_data, continued (specification Spec)
\* C15: every table entry with a positive value holds the index of a processed
\* image whose activation on the latent is that value, and the entries with a
\* positive value of a latent hold pairwise distinct images.
C15_GlobalIndices ==
    (TablesSet /\ ~load_pretrained) =>
        \A l \in Latents : \A r \in 1..number_of_max_activating_images :
            max_activating_image_values[l][r] > 0 =>
                /\ \E j \in DOMAIN fed : fed[j] = max_activating_image_indices[l][r]
                /\ max_activating_image_indices[l][r] \in 0..(MaxDataset - 1)
                /\ act[l][max_activating_image_indices[l][r]]
                      = max_activating_image_values[l][r]
                /\ \A q \in 1..number_of_max_activating_images :
                      (q # r /\ max_activating_image_values[l][q] > 0) =>
                          max_activating_image_indices[l][q]
                              # max_activating_image_indices[l][r]

\* After two chunks a row holds an image of the second chunk above an image
\* of the first one.
C15_Witness ==
    /\ TablesSet /\ ~load_pretrained
    /\ number_of_max_activating_images = 2
    /\ number_of_images_processed = 2 * max_number_of_images_per_iteration
    /\ \E l \in Latents :
          /\ max_activating_image_values[l][2] > 0
          /\ max_activating_image_indices[l][1] >= max_number_of_images_per_iteration
          /\ max_activating_image_indices[l][2] < max_number_of_images_per_iteration

\* ---- SplitClip (specification SpecSplit)
\* C13: with L blocks and n_end_layers = N, 0 <= N <= L, forward_start applies
\* exactly the blocks 0..L-N-1 and forward_end exactly the blocks L-N..L-1, in
\* order, so that the two together apply every block exactly once.
C13_SplitPartition ==
    split_pc = "ended" =>
        LET L == split_args.n_blocks
            N == split_args.n_end_layers
        IN  /\ split_applied.forward_start = [j \in 1..(L - N) |-> j - 1]
            /\ split_applied.forward_end = [j \in 1..N |-> L - N + j - 1]
            /\ split_applied.forward_start \o split_applied.forward_end = resblocks(L)

\* ---- mini-batching (specification SpecBatch)
\* C14: for n >= 1 items and a batch size b >= 1, whether or not b divides n or
\* exceeds it, both functions return exactly n rows, row i computed from item i:
\* the mini-batches hold every item exactly once in the input's order, none is
\* larger than b, and the final partial batch is not dropped.
C14_MiniBatchConservation ==
    batch_pc = "returned" =>
        LET n == Len(batch_args.items)
        IN  /\ Len(batch_result) = n
            /\ \A i \in 1..n :
                  batch_result[i] = RowOf(batch_args.fn, batch_args.items[i])
            /\ CatBatches([j \in DOMAIN batch_ran |-> batch_ran[j].items])
                  = batch_args.items
            /\ \A j \in DOMAIN batch_ran :
                  /\ Len(batch_ran[j].items) >= 1
                  /\ Len(batch_ran[j].items) <= batch_args.max_batch_size

\* A call returned after two full mini-batches and a partial one.
C14_Witness ==
    /\ batch_pc = "returned"
    /\ batch_args.remainder > 0
    /\ batch_args.number_of_mini_batches >= 2
    /\ Len(batch_ran) = batch_args.number_of_mini_batches + 1
    /\ Len(batch_result) = Len(batch_args.items)

\* ---- example ids (specification SpecRoundTrip)
\* C16: for every model key of MODEL_LOOKUP and every image index i, get_image
\* splits the example_id that make_sae_activation emits into a dataset key equal
\* to the model's dataset_name, which is a key of datasets, and the index i.
C16_ExampleIdRoundTrip ==
    rt_pc = "got" =>
        /\ rt_result.raised = ""
        /\ rt_result.key = MODEL_LOOKUP[rt_args.model_name].dataset_name
        /\ rt_result.key \in datasets
        /\ rt_result.i = rt_args.i_im

\* The id of an image with a three-digit index went through get_image.
C16_Witness ==
    /\ rt_pc = "got"
    /\ rt_args.i_im >= 100
    /\ Len(rt_example_id) = Len(Inat21TrainMini) + 2 + 3
    /\ rt_result.i = rt_args.i_im

\* ---- add_highlights (specification SpecHighlight)
\* C12: add_highlights ends in an assertion failure, and produces no image,
\* whenever the non-empty patch vector's length is not a perfect square or the
\* image's width or height is not a multiple of the grid dimension.
C12_GridPrecondition ==
    hl_pc = "returned" =>
        LET n == Len(hl_args.top_values[1])
            grid == Isqrt(n)
        IN  (n > 0 /\ (\/ grid * grid # n
                       \/ hl_args.width % grid # 0
                       \/ hl_args.height % grid # 0))
                => hl_result[1].raised = "AssertionError"

\* ---- make_sae_activation's highlights (specification SpecRender)
\* C17: upper is the maximum of the latent's whole top_values slice, so that no
\* patch value exceeds it, and for non-negative activations every colour value
\* int(255 * val) is in 0..255 and every alpha value int(128 * val) in 0..128:
\* nothing stored in the overlay overflows 8 bits.
C17_NoOverflowWhenServing ==
    hl_pc \in {"submit", "submitted", "error"} =>
        /\ ~hl_args.upper.none
        /\ \A r \in DOMAIN hl_args.top_values : \A j \in DOMAIN hl_args.top_values[r] :
              hl_args.top_values[r][j] <= hl_args.upper.value
        /\ \A e \in DOMAIN hl_result :
              /\ hl_result[e].raised # "OverflowError"
              /\ \A idx \in DOMAIN hl_result[e].overlay :
                    LET c == hl_result[e].overlay[idx]
                    IN  /\ c.red_int \in 0..255 /\ c.red = c.red_int
                        /\ c.alpha_int \in 0..128 /\ c.alpha = c.alpha_int

\* Two examples were highlighted, the second one holding a patch with the
\* largest value of the table, above every value of the first one.
C17_Witness ==
    /\ hl_pc = "submitted"
    /\ Len(hl_result) = 2
    /\ hl_args.upper.value > MaxOf(Range(hl_args.top_values[1]))
    /\ \E idx \in DOMAIN hl_result[2].overlay :
          /\ hl_args.top_values[hl_args.kept[2]][idx] = hl_args.upper.value
          /\ hl_result[2].overlay[idx].red \in {254, 255}
          /\ hl_result[2].overlay[idx].alpha \in {127, 128}

====
